---- MODULE Spec2Model ----
(***************************************************************************)
(* Model of agno.memory.v2.manager.MemoryManager: the four orchestration   *)
(* entry points, the tool registrar (_get_db_tools, add_tools_to_model),   *)
(* the prompt builder (get_system_message) and the memory store the tools  *)
(* write to.  Model objects live on a heap (models) so that deepcopy and   *)
(* aliasing are distinguishable.  Strings that are built by the code are   *)
(* sequences of characters (or of tokens for status strings).              *)
(***************************************************************************)
EXTENDS Integers, Sequences, FiniteSets, TLC

VARIABLES model, models, memories_updated, db, calls, observed, probe

vars == <<model, models, memories_updated, db, calls, observed, probe>>

\* ------------------------------------------------------------------ bounds
MaxCalls == 2
MaxMsgs == 2
MaxToolCalls == 1
MaxTools == 3

\* ------------------------------------------------------------ value spaces
None == "<None>"
NoRef == -1
SelfModel == 0
CallIds == 1 .. MaxCalls
Refs == 0 .. MaxCalls

Users == {"u1", "u2"}
MemoryIds == {"m1", "m2"}
Roles == {"user", "assistant", "system"}
Contents == {<<>>, <<"a">>, <<"b">>}
Tasks == {<<"t">>}
Texts == {"x"}
Topics == {None}
DbError == "db down"
ResponseContents == {None, "", "Done"}

Message == [role : Roles, content : Contents]

RECURSIVE SeqsUpTo(_, _)
SeqsUpTo(S, n) ==
    IF n = 0 THEN {<<>>}
    ELSE LET shorter == SeqsUpTo(S, n - 1)
         IN  shorter \cup {Append(s, x) : s \in {t \in shorter : Len(t) = n - 1}, x \in S}

MessageLists == SeqsUpTo(Message, MaxMsgs)

\* The dialogue the entry points are driven with in the orchestration model:
\* a user message followed by an assistant reply.
Dialogues ==
    {<<[role |-> "user", content |-> <<"a">>], [role |-> "assistant", content |-> <<"b">>]>>}

NO_MODEL == "No model provided for memory manager"
NO_RESPONSE == "No response from model"

EntryPoints ==
    {"create_or_update_memories", "acreate_or_update_memories",
     "run_memory_task", "arun_memory_task"}

\* ---------------------------------------------------------- pure functions
\* Message.get_content_string for textual content: the content itself.
get_content_string(m) == m.content

RECURSIVE Join(_, _)
\* sep.join(parts)
Join(parts, sep) ==
    IF Len(parts) = 0 THEN <<>>
    ELSE IF Len(parts) = 1 THEN parts[1]
    ELSE parts[1] \o sep \o Join(Tail(parts), sep)

RECURSIVE UserContents(_)
\* [m.get_content_string() for m in messages if m.role == 'user' and m.content]
UserContents(messages) ==
    IF Len(messages) = 0 THEN <<>>
    ELSE LET m == Head(messages)
             rest == UserContents(Tail(messages))
         IN  IF m.role = "user" /\ m.content # <<>>
             THEN <<get_content_string(m)>> \o rest
             ELSE rest

RECURSIVE ContentsOfAnyRole(_)
ContentsOfAnyRole(messages) ==
    IF Len(messages) = 0 THEN <<>>
    ELSE LET m == Head(messages)
             rest == ContentsOfAnyRole(Tail(messages))
         IN  IF m.content # <<>> THEN <<get_content_string(m)>> \o rest ELSE rest

\* InputString with the role test of the comprehension left out
InputString_any_role(messages) ==
    IF Len(messages) = 1
    THEN get_content_string(messages[1])
    ELSE <<"[">> \o Join(ContentsOfAnyRole(messages), <<",", " ">>) \o <<"]">>

\* The synthetic input string of the extract-from-dialogue entry points.
InputString(messages) ==
    IF Len(messages) = 1
    THEN get_content_string(messages[1])
    ELSE <<"[">> \o Join(UserContents(messages), <<",", " ">>) \o <<"]">>

RECURSIVE PromptUserMessages(_)
\* the user_messages block of the system message
PromptUserMessages(messages) ==
    IF Len(messages) = 0 THEN <<>>
    ELSE LET m == Head(messages)
             rest == PromptUserMessages(Tail(messages))
         IN  IF m.role = "user" THEN <<get_content_string(m)>> \o rest ELSE rest

\* The system message: the numbered options that name a tool, the embedded
\* user messages and the embedded existing memories.
get_system_message(existing_memories, messages, enable_delete_memory, enable_clear_memory) ==
    [options |->
        <<[num |-> 2, tool |-> "add_memory"], [num |-> 3, tool |-> "update_memory"]>>
        \o (IF enable_delete_memory THEN <<[num |-> 4, tool |-> "delete_memory"]>> ELSE <<>>)
        \o (IF enable_clear_memory THEN <<[num |-> 5, tool |-> "clear_memory"]>> ELSE <<>>),
     user_messages |-> IF Len(messages) > 0 THEN PromptUserMessages(messages) ELSE <<>>,
     existing_memories |-> existing_memories]

\* A callable handed to add_tools_to_model: its __name__, what its closure
\* binds, and whether Function.from_callable can derive a schema for it.
Callable(name, user_id, input_string, derivable) ==
    [name |-> name, user_id |-> user_id, input_string |-> input_string, derivable |-> derivable]

\* _get_db_tools with the enable flags ignored
_get_db_tools_all(user_id, input_string, enable_add_memory, enable_update_memory, enable_delete_memory, enable_clear_memory) ==
    <<Callable("add_memory", user_id, input_string, TRUE),
      Callable("update_memory", user_id, input_string, TRUE),
      Callable("delete_memory", user_id, input_string, TRUE),
      Callable("clear_memory", user_id, input_string, TRUE)>>

\* The list of tool closures built for one call.
_get_db_tools(user_id, input_string, enable_add_memory, enable_update_memory, enable_delete_memory, enable_clear_memory) ==
    (IF enable_add_memory THEN <<Callable("add_memory", user_id, input_string, TRUE)>> ELSE <<>>)
    \o (IF enable_update_memory THEN <<Callable("update_memory", user_id, input_string, TRUE)>> ELSE <<>>)
    \o (IF enable_delete_memory THEN <<Callable("delete_memory", user_id, input_string, TRUE)>> ELSE <<>>)
    \o (IF enable_clear_memory THEN <<Callable("clear_memory", user_id, input_string, TRUE)>> ELSE <<>>)

\* ------------------------------------------------------------ model objects
Unallocated == [alloc |-> FALSE, tools |-> <<>>, functions |-> {}]

\* Model.reset_tools_and_functions
reset_tools_and_functions(m) == [m EXCEPT !.tools = <<>>, !.functions = {}]

\* Model.set_tools
set_tools(m, tools) == [m EXCEPT !.tools = tools]

\* Model.set_functions
set_functions(m, functions) == [m EXCEPT !.functions = functions]

FunctionNames(functions) == {f.name : f \in functions}

RECURSIVE RegisterLoop(_, _)
\* the for loop of add_tools_to_model over the remaining candidates
RegisterLoop(tools, acc) ==
    IF Len(tools) = 0 THEN acc
    ELSE LET tool == Head(tools)
         IN  IF tool.name \notin FunctionNames(acc.functions) /\ tool.derivable
             THEN RegisterLoop(Tail(tools),
                      [tools |-> Append(acc.tools, tool.name),
                       functions |-> acc.functions \cup {tool}])
             ELSE RegisterLoop(Tail(tools), acc)

\* add_tools_to_model without the reset: registers on top of what is there
add_tools_to_model_additive(m, tools) ==
    LET reg == RegisterLoop(tools, [tools |-> m.tools, functions |-> m.functions])
    IN  set_functions(set_tools(m, reg.tools), reg.functions)

\* add_tools_to_model on the model object m (a heap value): the new value.
add_tools_to_model(m, tools) ==
    LET cleared == reset_tools_and_functions(m)
        reg == RegisterLoop(tools, [tools |-> <<>>, functions |-> {}])
    IN  set_functions(set_tools(cleared, reg.tools), reg.functions)

\* model_copy = self.model: no copy, the same object
deepcopy_alias(heap, src, new) == [heap |-> heap, ref |-> src]

\* copy.deepcopy of the object at ref src into the fresh ref new.
deepcopy(heap, src, new) ==
    [heap |-> [heap EXCEPT ![new] = heap[src]], ref |-> new]

\* ------------------------------------------------------------- the store
NoRow == [id |-> None, user_id |-> None, memory |-> None, topics |-> None, input |-> <<>>]

\* MemoryRow(id, user_id, UserMemory(memory, topics, input))
MemoryRow(id, user_id, memory, topics, input) ==
    [id |-> id, user_id |-> user_id, memory |-> memory, topics |-> topics, input |-> input]

\* MemoryDb.upsert_memory: last write wins on the row id
upsert_memory(store, row) == [store EXCEPT ![row.id] = row]

\* MemoryDb.delete_memory
db_delete_memory(store, memory_id) == [store EXCEPT ![memory_id] = NoRow]

\* MemoryDb.clear
clear(store) == [id \in MemoryIds |-> NoRow]

\* ------------------------------------------------------- tool operations
\* Each tool yields the new store and how the call ended: "returned" with a
\* status string (a sequence of tokens) or "raised" with the exception.
Returned(store, value) == [db |-> store, outcome |-> "returned", value |-> value]
Raised(store, e) == [db |-> store, outcome |-> "raised", value |-> <<e>>]

add_memory(f, store, memory_id, memory, topics, fails) ==
    IF fails
    THEN Returned(store, <<"Error adding memory: ", DbError>>)
    ELSE Returned(upsert_memory(store, MemoryRow(memory_id, f.user_id, memory, topics, f.input_string)),
                  <<"Memory added successfully">>)

update_memory(f, store, memory_id, memory, topics, fails) ==
    IF fails
    THEN Returned(store, <<"Error adding memory: ", DbError>>)
    ELSE Returned(upsert_memory(store, MemoryRow(memory_id, f.user_id, memory, topics, f.input_string)),
                  <<"Memory updated successfully">>)

delete_memory(f, store, memory_id, fails) ==
    IF fails
    THEN Returned(store, <<"Error deleting memory: ", DbError>>)
    ELSE Returned(db_delete_memory(store, memory_id), <<"Memory deleted successfully">>)

clear_memory(f, store, fails) ==
    IF fails
    THEN Raised(store, DbError)
    ELSE Returned(clear(store), <<"Memory cleared successfully">>)

\* ------------------------------------------------------------------ state
IdleCall ==
    [pc |-> "idle", entry |-> None, user_id |-> None, input_string |-> <<>>,
     model_copy |-> NoRef, options |-> <<>>, tool_calls |-> 0]

\* The last thing the manager's surroundings saw: the result a tool handed
\* back to the model (kind "tool") or the end of an entry point (kind
\* "return"): by which name, after how many tool calls of the call, whether
\* the storage call had failed, and the string returned or exception raised.
Observation(kind, name, tool_calls, failed, outcome, value) ==
    [kind |-> kind, name |-> name, tool_calls |-> tool_calls, failed |-> failed,
     outcome |-> outcome, value |-> value]

Nothing == Observation("none", None, 0, FALSE, None, <<>>)

NoProbe == [kind |-> "none"]

\* The model object a manager is constructed with: it already carries a
\* tool of its own.
ConfiguredModels ==
    {[alloc |-> TRUE, tools |-> <<"other_tool">>,
      functions |-> {Callable("other_tool", None, <<>>, TRUE)}]}

\* The store a call finds: it holds an entry of user u2.
InitialStores ==
    {[id \in MemoryIds |-> IF id = "m1" THEN MemoryRow("m1", "u2", "old", None, <<"o">>) ELSE NoRow]}

MemoryIdOrder == <<"m1", "m2">>

\* The caller's snapshot of the user's entries, as (memory_id, memory) records.
ExistingMemories(store, user_id) ==
    LET owned(id) == store[id].user_id = user_id
        entry(id) == [memory_id |-> id, memory |-> store[id].memory]
    IN  (IF owned(MemoryIdOrder[1]) THEN <<entry(MemoryIdOrder[1])>> ELSE <<>>)
        \o (IF owned(MemoryIdOrder[2]) THEN <<entry(MemoryIdOrder[2])>> ELSE <<>>)

\* MemoryManager.__init__ (memories_updated defaults to False)
Init ==
    /\ model \in {NoRef, SelfModel}
    /\ models \in {[r \in Refs |-> IF r = SelfModel /\ model # NoRef THEN m ELSE Unallocated] :
                        m \in ConfiguredModels}
    /\ memories_updated = FALSE
    /\ db \in InitialStores
    /\ calls = [c \in CallIds |-> IdleCall]
    /\ observed = Nothing
    /\ probe = NoProbe

\* the next call takes the lowest unused call slot
NextSlot(c) == calls[c].pc = "idle" /\ \A d \in CallIds : d < c => calls[d].pc # "idle"

Running(c, entry) == calls[c].pc = "running" /\ calls[c].entry = entry

\* the caller of an entry point gets ret back
ReturnOf(entry, tool_calls, ret) == Observation("return", entry, tool_calls, FALSE, "returned", <<ret>>)

\* a call slot whose entry point has ended: its locals are gone
Finished(call) == [IdleCall EXCEPT !.pc = "done", !.tool_calls = call.tool_calls]

\* the state of a call once the model has been handed the messages
Invoked(entry, user_id, input_string, ref, system_message) ==
    [pc |-> "running", entry |-> entry, user_id |-> user_id, input_string |-> input_string,
     model_copy |-> ref, options |-> system_message.options, tool_calls |-> 0]

\* the model copy of a finished call is garbage
Release(heap, ref) == [heap EXCEPT ![ref] = Unallocated]

\* response.content or "No response from model"
ContentOr(content) == IF content = None \/ content = "" THEN NO_RESPONSE ELSE content

\* ------------------------------------------------------- the entry points
\* create_or_update_memories up to the model invocation
create_or_update_memories(c, messages, user_id) ==
    /\ NextSlot(c)
    /\ IF model = NoRef
       THEN /\ calls' = [calls EXCEPT ![c] = Finished(calls[c])]
            /\ observed' = ReturnOf("create_or_update_memories", 0, NO_MODEL)
            /\ UNCHANGED models
       ELSE LET input_string == InputString(messages)
                copy == deepcopy(models, model, c)
                tools == _get_db_tools(user_id, input_string, TRUE, TRUE, FALSE, FALSE)
                system_message == get_system_message(ExistingMemories(db, user_id), messages, FALSE, FALSE)
            IN  /\ models' = [copy.heap EXCEPT ![copy.ref] = add_tools_to_model(copy.heap[copy.ref], tools)]
                /\ calls' = [calls EXCEPT ![c] =
                       Invoked("create_or_update_memories", user_id, input_string, copy.ref, system_message)]
                /\ UNCHANGED observed
    /\ UNCHANGED <<model, memories_updated, db, probe>>

\* create_or_update_memories from the model's response to the return
create_or_update_memories_end(c, content) ==
    /\ Running(c, "create_or_update_memories")
    /\ memories_updated' = IF calls[c].tool_calls > 0 THEN TRUE ELSE memories_updated
    /\ calls' = [calls EXCEPT ![c] = Finished(calls[c])]
    /\ observed' = ReturnOf("create_or_update_memories", calls[c].tool_calls, ContentOr(content))
    /\ models' = Release(models, calls[c].model_copy)
    /\ UNCHANGED <<model, db, probe>>

\* acreate_or_update_memories up to the awaited model invocation
acreate_or_update_memories(c, messages, user_id) ==
    /\ NextSlot(c)
    /\ IF model = NoRef
       THEN /\ calls' = [calls EXCEPT ![c] = Finished(calls[c])]
            /\ observed' = ReturnOf("acreate_or_update_memories", 0, NO_MODEL)
            /\ UNCHANGED models
       ELSE LET input_string == InputString(messages)
                copy == deepcopy(models, model, c)
                tools == _get_db_tools(user_id, input_string, TRUE, TRUE, FALSE, FALSE)
                system_message == get_system_message(ExistingMemories(db, user_id), messages, TRUE, TRUE)
            IN  /\ models' = [copy.heap EXCEPT ![copy.ref] = add_tools_to_model(copy.heap[copy.ref], tools)]
                /\ calls' = [calls EXCEPT ![c] =
                       Invoked("acreate_or_update_memories", user_id, input_string, copy.ref, system_message)]
                /\ UNCHANGED observed
    /\ UNCHANGED <<model, memories_updated, db, probe>>

\* acreate_or_update_memories from the awaited response to the return
acreate_or_update_memories_end(c, content) ==
    /\ Running(c, "acreate_or_update_memories")
    /\ memories_updated' = IF calls[c].tool_calls > 0 THEN TRUE ELSE memories_updated
    /\ calls' = [calls EXCEPT ![c] = Finished(calls[c])]
    /\ observed' = ReturnOf("acreate_or_update_memories", calls[c].tool_calls, ContentOr(content))
    /\ models' = Release(models, calls[c].model_copy)
    /\ UNCHANGED <<model, db, probe>>

\* run_memory_task without the early return: with no model it falls
\* through to the end of the call
run_memory_task_unchecked(c, task, user_id) ==
    /\ NextSlot(c)
    /\ IF model = NoRef
       THEN /\ calls' = [calls EXCEPT ![c] = Finished(calls[c])]
            /\ observed' = ReturnOf("run_memory_task", 0, ContentOr(None))
            /\ UNCHANGED models
       ELSE LET copy == deepcopy(models, model, c)
                tools == _get_db_tools(user_id, task, TRUE, TRUE, TRUE, TRUE)
                system_message == get_system_message(ExistingMemories(db, user_id), <<>>, TRUE, TRUE)
            IN  /\ models' = [copy.heap EXCEPT ![copy.ref] = add_tools_to_model(copy.heap[copy.ref], tools)]
                /\ calls' = [calls EXCEPT ![c] =
                       Invoked("run_memory_task", user_id, task, copy.ref, system_message)]
                /\ UNCHANGED observed
    /\ UNCHANGED <<model, memories_updated, db, probe>>

\* run_memory_task up to the model invocation
run_memory_task(c, task, user_id) ==
    /\ NextSlot(c)
    /\ IF model = NoRef
       THEN /\ calls' = [calls EXCEPT ![c] = Finished(calls[c])]
            /\ observed' = ReturnOf("run_memory_task", 0, NO_MODEL)
            /\ UNCHANGED models
       ELSE LET copy == deepcopy(models, model, c)
                tools == _get_db_tools(user_id, task, TRUE, TRUE, TRUE, TRUE)
                system_message == get_system_message(ExistingMemories(db, user_id), <<>>, TRUE, TRUE)
            IN  /\ models' = [copy.heap EXCEPT ![copy.ref] = add_tools_to_model(copy.heap[copy.ref], tools)]
                /\ calls' = [calls EXCEPT ![c] =
                       Invoked("run_memory_task", user_id, task, copy.ref, system_message)]
                /\ UNCHANGED observed
    /\ UNCHANGED <<model, memories_updated, db, probe>>

\* run_memory_task assigning the flag from the last response
run_memory_task_end_resets(c, content) ==
    /\ Running(c, "run_memory_task")
    /\ memories_updated' = (calls[c].tool_calls > 0)
    /\ calls' = [calls EXCEPT ![c] = Finished(calls[c])]
    /\ observed' = ReturnOf("run_memory_task", calls[c].tool_calls, ContentOr(content))
    /\ models' = Release(models, calls[c].model_copy)
    /\ UNCHANGED <<model, db, probe>>

\* run_memory_task from the model's response to the return
run_memory_task_end(c, content) ==
    /\ Running(c, "run_memory_task")
    /\ memories_updated' = IF calls[c].tool_calls > 0 THEN TRUE ELSE memories_updated
    /\ calls' = [calls EXCEPT ![c] = Finished(calls[c])]
    /\ observed' = ReturnOf("run_memory_task", calls[c].tool_calls, ContentOr(content))
    /\ models' = Release(models, calls[c].model_copy)
    /\ UNCHANGED <<model, db, probe>>

\* arun_memory_task up to the awaited model invocation
arun_memory_task(c, task, user_id) ==
    /\ NextSlot(c)
    /\ IF model = NoRef
       THEN /\ calls' = [calls EXCEPT ![c] = Finished(calls[c])]
            /\ observed' = ReturnOf("arun_memory_task", 0, NO_MODEL)
            /\ UNCHANGED models
       ELSE LET copy == deepcopy(models, model, c)
                tools == _get_db_tools(user_id, task, TRUE, TRUE, TRUE, TRUE)
                system_message == get_system_message(ExistingMemories(db, user_id), <<>>, TRUE, TRUE)
            IN  /\ models' = [copy.heap EXCEPT ![copy.ref] = add_tools_to_model(copy.heap[copy.ref], tools)]
                /\ calls' = [calls EXCEPT ![c] =
                       Invoked("arun_memory_task", user_id, task, copy.ref, system_message)]
                /\ UNCHANGED observed
    /\ UNCHANGED <<model, memories_updated, db, probe>>

\* arun_memory_task from the awaited response to the return
arun_memory_task_end(c, content) ==
    /\ Running(c, "arun_memory_task")
    /\ memories_updated' = IF calls[c].tool_calls > 0 THEN TRUE ELSE memories_updated
    /\ calls' = [calls EXCEPT ![c] = Finished(calls[c])]
    /\ observed' = ReturnOf("arun_memory_task", calls[c].tool_calls, ContentOr(content))
    /\ models' = Release(models, calls[c].model_copy)
    /\ UNCHANGED <<model, db, probe>>

\* ------------------------------------ the model invoking a registered tool
RECURSIVE ToolCallsUpTo(_)
ToolCallsUpTo(n) == IF n = 0 THEN 0 ELSE calls[n].tool_calls + ToolCallsUpTo(n - 1)

\* tool invocations made so far, over all calls
ToolCallsMade == ToolCallsUpTo(MaxCalls)

CanInvoke(c) == calls[c].pc = "running" /\ ToolCallsMade < MaxToolCalls

Registered(c, name) == {f \in models[calls[c].model_copy].functions : f.name = name}

FreshIds == {id \in MemoryIds : db[id] = NoRow}

\* The tool has run for call c with result r.  An exception that leaves the
\* tool either is absorbed by the model's function-call runner (the call
\* goes on) or propagates through response() and ends the entry point.
ToolRan(c, name, fails, r, propagates) ==
    /\ db' = r.db
    /\ IF r.outcome = "raised" /\ propagates
       THEN /\ calls' = [calls EXCEPT ![c] = [Finished(calls[c]) EXCEPT !.tool_calls = @ + 1]]
            /\ models' = Release(models, calls[c].model_copy)
            /\ observed' = Observation("return", calls[c].entry, calls[c].tool_calls + 1, fails,
                                       "raised", r.value)
       ELSE /\ calls' = [calls EXCEPT ![c].tool_calls = @ + 1]
            /\ observed' = Observation("tool", name, calls[c].tool_calls + 1, fails, r.outcome, r.value)
            /\ UNCHANGED models
    /\ UNCHANGED <<model, memories_updated, probe>>

invoke_add_memory(c, memory, topics, fails) ==
    /\ CanInvoke(c)
    /\ \E f \in Registered(c, "add_memory"), memory_id \in FreshIds :
          ToolRan(c, "add_memory", fails, add_memory(f, db, memory_id, memory, topics, fails), FALSE)

invoke_update_memory(c, memory_id, memory, topics, fails) ==
    /\ CanInvoke(c)
    /\ \E f \in Registered(c, "update_memory") :
          ToolRan(c, "update_memory", fails, update_memory(f, db, memory_id, memory, topics, fails), FALSE)

invoke_delete_memory(c, memory_id, fails) ==
    /\ CanInvoke(c)
    /\ \E f \in Registered(c, "delete_memory") :
          ToolRan(c, "delete_memory", fails, delete_memory(f, db, memory_id, fails), FALSE)

invoke_clear_memory(c, fails, propagates) ==
    /\ CanInvoke(c)
    /\ \E f \in Registered(c, "clear_memory") :
          ToolRan(c, "clear_memory", fails, clear_memory(f, db, fails), propagates)

Next ==
    \/ \E c \in CallIds, ms \in Dialogues, u \in Users : create_or_update_memories(c, ms, u)
    \/ \E c \in CallIds, ms \in Dialogues, u \in Users : acreate_or_update_memories(c, ms, u)
    \/ \E c \in CallIds, t \in Tasks, u \in Users : run_memory_task(c, t, u)
    \/ \E c \in CallIds, t \in Tasks, u \in Users : arun_memory_task(c, t, u)
    \/ \E c \in CallIds, content \in ResponseContents : create_or_update_memories_end(c, content)
    \/ \E c \in CallIds, content \in ResponseContents : acreate_or_update_memories_end(c, content)
    \/ \E c \in CallIds, content \in ResponseContents : run_memory_task_end(c, content)
    \/ \E c \in CallIds, content \in ResponseContents : arun_memory_task_end(c, content)
    \/ \E c \in CallIds, m \in Texts, tp \in Topics, fails \in BOOLEAN : invoke_add_memory(c, m, tp, fails)
    \/ \E c \in CallIds, id \in MemoryIds, m \in Texts, tp \in Topics, fails \in BOOLEAN :
          invoke_update_memory(c, id, m, tp, fails)
    \/ \E c \in CallIds, id \in MemoryIds, fails \in BOOLEAN : invoke_delete_memory(c, id, fails)
    \/ \E c \in CallIds, fails \in BOOLEAN, propagates \in BOOLEAN : invoke_clear_memory(c, fails, propagates)

Spec == Init /\ [][Next]_vars

\* ------------------------------------------- the input string on its own
\* A call of an extract-from-dialogue entry point on any message list, up
\* to the point where input_string is bound.
InitInput ==
    /\ model = SelfModel
    /\ models \in {[r \in Refs |-> IF r = SelfModel THEN m ELSE Unallocated] : m \in ConfiguredModels}
    /\ memories_updated = FALSE
    /\ db \in InitialStores
    /\ calls = [c \in CallIds |-> IdleCall]
    /\ observed = Nothing
    /\ probe \in {[kind |-> "input", done |-> FALSE, messages |-> ms, input_string |-> <<>>] :
                      ms \in MessageLists}

BindInputString ==
    /\ probe.kind = "input" /\ ~probe.done
    /\ probe' = [probe EXCEPT !.done = TRUE, !.input_string = InputString(probe.messages)]
    /\ UNCHANGED <<model, models, memories_updated, db, calls, observed>>

SpecInput == InitInput /\ [][BindInputString]_vars

\* ------------------------------------------ add_tools_to_model on its own
\* Candidate callables: two closures may share a name, and schema
\* derivation may fail for any of them.
Candidates ==
    {Callable(n, u, <<>>, d) : n \in {"add_memory", "update_memory"}, u \in Users, d \in BOOLEAN}

CandidateLists == SeqsUpTo(Candidates, MaxTools)

\* Model objects add_tools_to_model may be handed: bare, or carrying tools.
TargetModels == ConfiguredModels \cup {[alloc |-> TRUE, tools |-> <<>>, functions |-> {}]}

InitTools ==
    /\ model = SelfModel
    /\ models \in {[r \in Refs |-> IF r = SelfModel THEN m ELSE Unallocated] : m \in TargetModels}
    /\ memories_updated = FALSE
    /\ db \in InitialStores
    /\ calls = [c \in CallIds |-> IdleCall]
    /\ observed = Nothing
    /\ probe \in {[kind |-> "tools", done |-> FALSE, tools |-> ts, before |-> Unallocated] :
                      ts \in CandidateLists}

\* add_tools_to_model(self.model, tools), called directly
AddToolsToModel ==
    /\ probe.kind = "tools" /\ ~probe.done
    /\ models' = [models EXCEPT ![model] = add_tools_to_model(models[model], probe.tools)]
    /\ probe' = [probe EXCEPT !.done = TRUE, !.before = models[model]]
    /\ UNCHANGED <<model, memories_updated, db, calls, observed>>

SpecTools == InitTools /\ [][AddToolsToModel]_vars

\* ================================================================ claims
ExtractEntries == {"create_or_update_memories", "acreate_or_update_memories"}
TaskEntries == {"run_memory_task", "arun_memory_task"}

\* call c ends in this step with a response from the model
Responded(c) ==
    /\ calls[c].pc = "running" /\ calls'[c].pc = "done"
    /\ observed'.kind = "return" /\ observed'.outcome = "returned"

\* call c has a tool run in this step
ToolStep(c) == calls[c].pc = "running" /\ calls'[c].tool_calls = calls[c].tool_calls + 1

FlagReportsLastRun ==
    [][\A c \in CallIds : Responded(c) => (memories_updated' = (calls[c].tool_calls > 0))]_vars

\* C3: without a model every entry point returns the sentinel at once: the
\* call never reaches a model, no model copy is made, the store and the flag
\* are untouched and nothing is raised.
NoModelIsInert ==
    [][model = NoRef =>
        /\ db' = db /\ models' = models /\ memories_updated' = memories_updated
        /\ \A c \in CallIds :
              calls'[c] # calls[c] =>
                  /\ calls[c].pc = "idle" /\ calls'[c].pc = "done"
                  /\ calls'[c].model_copy = NoRef /\ calls'[c].tool_calls = 0
                  /\ observed'.kind = "return" /\ observed'.name \in EntryPoints
                  /\ observed'.outcome = "returned"
                  /\ observed'.value = <<"No model provided for memory manager">>]_vars

\* C3 witness: the asynchronous task entry point has returned the sentinel
\* of a manager without a model, after another entry point did.
SentinelReturned ==
    /\ model = NoRef
    /\ calls[1].pc = "done" /\ calls[2].pc = "done"
    /\ observed.name = "arun_memory_task"
    /\ observed.value = <<"No model provided for memory manager">>

\* C4: a tool whose storage call fails returns a status string that holds
\* the failure message and never raises; add_memory's string begins with
\* "Error adding memory:".
ToolsNeverRaise ==
    observed.failed =>
        /\ observed.kind = "tool" /\ observed.outcome = "returned"
        /\ \E i \in 1 .. Len(observed.value) : observed.value[i] = DbError
        /\ observed.name = "add_memory" => observed.value[1] = "Error adding memory: "

\* the names registered on the model copy of call c
RegisteredTools(c) == models[calls[c].model_copy].tools
RegisteredFunctions(c) == FunctionNames(models[calls[c].model_copy].functions)

RECURSIVE Range(_)
Range(seq) == IF Len(seq) = 0 THEN {} ELSE {Head(seq)} \cup Range(Tail(seq))

\* C5: a task call has exactly add, update, delete and clear registered on
\* its model copy, an extract call exactly add and update, and no tool run
\* of an extract call removes an entry from the store.
ToolsByEntryPoint ==
    [][/\ \A c \in CallIds :
            calls'[c].pc = "running" =>
                /\ RegisteredTools(c)' =
                      IF calls'[c].entry \in TaskEntries
                      THEN <<"add_memory", "update_memory", "delete_memory", "clear_memory">>
                      ELSE <<"add_memory", "update_memory">>
                /\ RegisteredFunctions(c)' = Range(RegisteredTools(c)')
       /\ \A c \in CallIds :
            ToolStep(c) /\ calls[c].entry \in ExtractEntries =>
                /\ observed'.name \in {"add_memory", "update_memory"}
                /\ \A id \in MemoryIds : db[id] # NoRow => db'[id] # NoRow]_vars

\* C5 witness: an extract call and a task call are both with their models,
\* and the extract call has had a tool run.
ExtractAndTaskRunning ==
    \E c, d \in CallIds :
        /\ calls[c].pc = "running" /\ calls[c].entry = "acreate_or_update_memories"
        /\ calls[c].tool_calls = 1
        /\ calls[d].pc = "running" /\ calls[d].entry = "run_memory_task"

OptionTools(options) == [i \in 1 .. Len(options) |-> options[i].tool]

\* C6: the options the system message lists are the tools registered for
\* the call: add and update only for both extract entry points, and for the
\* task entry points also delete as option 4 and clear as option 5.
InstructionMatchesTools ==
    \A c \in CallIds :
        calls[c].pc = "running" =>
            /\ OptionTools(calls[c].options) = RegisteredTools(c)
            /\ calls[c].entry \in ExtractEntries =>
                  calls[c].options =
                      <<[num |-> 2, tool |-> "add_memory"], [num |-> 3, tool |-> "update_memory"]>>
            /\ calls[c].entry \in TaskEntries =>
                  calls[c].options =
                      <<[num |-> 2, tool |-> "add_memory"], [num |-> 3, tool |-> "update_memory"],
                        [num |-> 4, tool |-> "delete_memory"], [num |-> 5, tool |-> "clear_memory"]>>

\* C7: no step changes the manager's own model object; every call in
\* progress has a model object of its own, distinct from the manager's and
\* from every other call's, whose tools are bound to that call's user and
\* input string; and an entry written by a tool run carries the user and
\* input string of the call the tool ran for.
CallsAreIsolated ==
    [][/\ models'[SelfModel] = models[SelfModel]
       /\ \A c \in CallIds :
            calls'[c].pc = "running" =>
                /\ calls'[c].model_copy \notin {SelfModel, NoRef}
                /\ \A d \in CallIds \ {c} :
                      calls'[d].pc = "running" => calls'[d].model_copy # calls'[c].model_copy
                /\ \A f \in models'[calls'[c].model_copy].functions :
                      f.user_id = calls'[c].user_id /\ f.input_string = calls'[c].input_string
       /\ \A c \in CallIds :
            ToolStep(c) =>
                \A id \in MemoryIds :
                    db'[id] # db[id] /\ db'[id] # NoRow =>
                        /\ db'[id].user_id = calls[c].user_id
                        /\ db'[id].input = calls[c].input_string]_vars

\* C7 witness: two calls for different users with different input strings
\* are in progress at once and a tool of one of them has written an entry.
ConcurrentCalls ==
    \E c, d \in CallIds :
        /\ calls[c].pc = "running" /\ calls[d].pc = "running"
        /\ calls[c].user_id # calls[d].user_id
        /\ calls[c].input_string # calls[d].input_string
        /\ calls[c].tool_calls = 1
        /\ \E id \in MemoryIds : db[id].user_id = calls[c].user_id /\ db[id].input = calls[c].input_string

\* the positions of the messages that contribute to the bracketed list
Contributors(ms, nonEmptyOnly) ==
    {i \in 1 .. Len(ms) : ms[i].role = "user" /\ (nonEmptyOnly => ms[i].content # <<>>)}

Last(I) == CHOOSE i \in I : \A j \in I : j <= i

RECURSIVE Listing(_, _)
\* the contents at the positions I, in order, separated by ", "
Listing(ms, I) ==
    IF I = {} THEN <<>>
    ELSE IF I = {Last(I)} THEN ms[Last(I)].content
    ELSE Listing(ms, I \ {Last(I)}) \o <<",", " ">> \o ms[Last(I)].content

Bracketed(ms, nonEmptyOnly) == <<"[">> \o Listing(ms, Contributors(ms, nonEmptyOnly)) \o <<"]">>

\* C8 as stated: one message gives its content verbatim, more than one the
\* bracketed ", "-joined contents of every user-authored message.
InputStringOfAllUserMessages ==
    probe.done /\ Len(probe.messages) >= 1 =>
        probe.input_string =
            IF Len(probe.messages) = 1 THEN probe.messages[1].content
            ELSE Bracketed(probe.messages, FALSE)

\* C8 amended: one message gives its content verbatim, more than one the
\* bracketed ", "-joined contents of the user-authored messages whose
\* content is not empty.
InputStringOfNonEmptyUserMessages ==
    probe.done /\ Len(probe.messages) >= 1 =>
        probe.input_string =
            IF Len(probe.messages) = 1 THEN probe.messages[1].content
            ELSE Bracketed(probe.messages, TRUE)

\* C8 witness: of a user message, an assistant message and nothing else,
\* only the user message is in the input string.
AssistantLeftOut ==
    /\ probe.done /\ Len(probe.messages) = 2
    /\ probe.messages[1] = [role |-> "user", content |-> <<"a">>]
    /\ probe.messages[2] = [role |-> "assistant", content |-> <<"b">>]
    /\ probe.input_string = <<"[", "a", "]">>

\* C9: a tool run for a call of user u writes only entries carrying u and
\* changes no entry owned by another user.
ToolsScopedToUser ==
    [][\A c \in CallIds :
          ToolStep(c) =>
              \A id \in MemoryIds :
                  db'[id] # db[id] =>
                      /\ db'[id] # NoRow => db'[id].user_id = calls[c].user_id
                      /\ db[id] # NoRow => db[id].user_id = calls[c].user_id]_vars

\* the position of the first candidate named n whose schema can be derived
FirstDerivable(tools, n) ==
    CHOOSE i \in 1 .. Len(tools) :
        /\ tools[i].name = n /\ tools[i].derivable
        /\ \A j \in 1 .. (i - 1) : ~(tools[j].name = n /\ tools[j].derivable)

DerivableNames(tools) == {tools[i].name : i \in {j \in 1 .. Len(tools) : tools[j].derivable}}

\* C10: after add_tools_to_model the model holds one tool per name that has
\* a derivable candidate, in the order of those candidates, its function
\* being the first such candidate; nothing the model held before is left,
\* and an underivable candidate stops none of the later ones.
RegistrationIsFullReset ==
    (probe.kind = "tools" /\ probe.done) =>
        LET m == models[model]
            tools == probe.tools
        IN  /\ Range(m.tools) = DerivableNames(tools)
            /\ \A i, j \in 1 .. Len(m.tools) :
                  i < j => FirstDerivable(tools, m.tools[i]) < FirstDerivable(tools, m.tools[j])
            /\ m.functions = {tools[FirstDerivable(tools, n)] : n \in DerivableNames(tools)}

\* C10 witness: the model held a tool of its own, the first candidate's
\* schema could not be derived, and the later candidates are registered.
ResetAndSkipped ==
    /\ probe.kind = "tools" /\ probe.done
    /\ probe.before.tools = <<"other_tool">>
    /\ Len(probe.tools) = 3 /\ ~probe.tools[1].derivable
    /\ probe.tools[2].name = probe.tools[1].name
    /\ models[model].tools = <<probe.tools[2].name, probe.tools[3].name>>

====
